---- MODULE Spec2Model ----
(***************************************************************************)
(* Model of main.py: the batch that copies media files into a mirrored    *)
(* output tree with embedded metadata taken from sidecar JSON files.      *)
(*                                                                         *)
(* A path is a record [dir, name]: dir is the sequence of directory       *)
(* components, name the file name split at its dots (<<"1","jpg">> is     *)
(* the file 1.jpg).                                                        *)
(***************************************************************************)
EXTENDS Integers, Sequences, FiniteSets, TLC

VARIABLES
    tree,           \* the files below the source folder, in os.walk order
    dry_run,        \* args.dry_run
    output_suffix,  \* args.output_suffix
    media_files,    \* result of find_media_files
    pc,             \* position of main
    idx,            \* index of the next element of media_files
    success_count, skipped_count, error_count,
    log,            \* one record per finished loop iteration
    created,        \* files that did not exist before the run and exist now
    modified,       \* files that existed before the run and were written to
    dirs,           \* directories the run created
    r_media, r_fs, r_json, r_pc,        \* find_json_file on its own
    c_value, c_dms, c_pc,               \* to_degrees on its own
    e_loaded, e_metadata, e_exif, e_pc  \* the tag mapping of update_image_exif on its own

batch_vars == <<tree, dry_run, output_suffix, media_files, pc, idx,
                success_count, skipped_count, error_count, log,
                created, modified, dirs>>
resolver_vars == <<r_media, r_fs, r_json, r_pc>>
coord_vars == <<c_value, c_dms, c_pc>>
exif_vars == <<e_loaded, e_metadata, e_exif, e_pc>>
vars == <<batch_vars, resolver_vars, coord_vars, exif_vars>>

\* ---------------------------------------------------------------- bounds
MaxFiles == 2

\* ------------------------------------------------------------- constants
IMAGE_EXTENSIONS == {"jpg", "jpeg", "png", "tiff", "tif"}
VIDEO_EXTENSIONS == {"mp4", "mov", "avi", "mkv", "m4v"}
ALL_MEDIA_EXTENSIONS == IMAGE_EXTENSIONS \cup VIDEO_EXTENSIONS

\* the value find_json_file returns when no candidate exists
None == [dir |-> <<>>, name |-> <<>>]

\* ----------------------------------------------------------------- paths
Front(s) == SubSeq(s, 1, Len(s) - 1)

\* str.lower() on the extensions that occur in the model
lower(ext) ==
    CASE ext = "JPG" -> "jpg"
      [] ext = "MP4" -> "mp4"
      [] OTHER -> ext

\* Path.suffix: the last dot-part of the name
suffix(p) == p.name[Len(p.name)]

\* Path.with_suffix: the last dot-part replaced by the given parts
with_suffix(p, parts) == [p EXCEPT !.name = Front(p.name) \o parts]

\* Path.relative_to
relative_to(p, folder) ==
    [dir |-> SubSeq(p.dir, Len(folder) + 1, Len(p.dir)), name |-> p.name]

\* the directory and all its ancestors
Parents(d) == {SubSeq(d, 1, k) : k \in 1..Len(d)}

\* ------------------------------------------------------------ the inputs
\* Path(args.folder).resolve()
folder == <<"parent", "photos">>

\* values of --output-suffix: the default and the empty string
OutputSuffixes == {"-exif", ""}

\* extensions of the files in the source tree; "txt" is not a media file
TreeExtensions == {"jpg", "MP4", "txt"}

\* the i-th file of the walk: odd ones lie directly in the folder, even ones
\* in a subfolder
TreeFile(i, ext) ==
    [dir |-> IF i % 2 = 0 THEN folder \o <<"sub">> ELSE folder,
     name |-> <<ToString(i), ext>>]

Trees ==
    UNION {{[i \in 1..n |-> TreeFile(i, e[i])] : e \in [1..n -> TreeExtensions]} :
           n \in 1..MaxFiles}

\* contents of a sidecar file
JsonTexts == {"{bad", "null", "{}", "[]", "5"}

\* ------------------------------------------------------ find_media_files
IsMedia(p) == lower(suffix(p)) \in ALL_MEDIA_EXTENSIONS

find_media_files(t) == SelectSeq(t, IsMedia)

\* -------------------------------------------------------- find_json_file
\* the four candidate sidecar paths, in the order the code tries them
Candidate(media_file, k) ==
    CASE k = 1 -> with_suffix(media_file, <<suffix(media_file), "suppl", "json">>)
      [] k = 2 -> with_suffix(media_file, <<suffix(media_file), "supplemental-metadata", "json">>)
      [] k = 3 -> with_suffix(media_file, <<suffix(media_file), "json">>)
      [] k = 4 -> with_suffix(media_file, <<"json">>)

Candidates(media_file) == {Candidate(media_file, k) : k \in 1..4}

\* the sidecar situations of one media file in a batch run: no candidate
\* exists, exactly one does, or all four do
SidecarSets(media_file) ==
    {{}} \cup {{c} : c \in Candidates(media_file)} \cup {Candidates(media_file)}

\* find_json_file with the third and the fourth candidate tried in the wrong order
find_json_file_swapped(media_file, fs) ==
    IF Candidate(media_file, 1) \in fs THEN Candidate(media_file, 1)
    ELSE IF Candidate(media_file, 2) \in fs THEN Candidate(media_file, 2)
    ELSE IF Candidate(media_file, 4) \in fs THEN Candidate(media_file, 4)
    ELSE IF Candidate(media_file, 3) \in fs THEN Candidate(media_file, 3)
    ELSE None

\* fs is the set of paths that exist
find_json_file(media_file, fs) ==
    IF Candidate(media_file, 1) \in fs THEN Candidate(media_file, 1)
    ELSE IF Candidate(media_file, 2) \in fs THEN Candidate(media_file, 2)
    ELSE IF Candidate(media_file, 3) \in fs THEN Candidate(media_file, 3)
    ELSE IF Candidate(media_file, 4) \in fs THEN Candidate(media_file, 4)
    ELSE None

\* ---------------------------------------------------- load_json_metadata
\* json.load: the Python type of the decoded value, "error" when it raises
json_load(text) ==
    CASE text = "{}" -> "dict"
      [] text = "[]" -> "list"
      [] text = "5" -> "int"
      [] text = "null" -> "NoneType"
      [] OTHER -> "error"

\* the exception is caught and None returned; null decodes to None as well
load_json_metadata(text) ==
    IF json_load(text) = "error" THEN "NoneType" ELSE json_load(text)

\* ------------------------------------------------------------ filesystem
\* st = [created, modified, dirs] is the part of the filesystem the run writes
SourceFiles == {tree[i] : i \in 1..Len(tree)}
SourceDirs == UNION {Parents(tree[i].dir) : i \in 1..Len(tree)}

\* Path.mkdir(parents=True, exist_ok=True)
mkdir(st, d) ==
    [st EXCEPT !.dirs = st.dirs \cup (Parents(d) \ SourceDirs)]

\* a file is written in full at path p
write_file(st, p) ==
    IF p \in SourceFiles
    THEN [st EXCEPT !.modified = st.modified \cup {p}]
    ELSE [st EXCEPT !.created = st.created \cup {p}]

\* ----------------------------------------------------- update_image_exif
\* update_image_exif reporting success although the image could not be opened
update_image_exif_swallow(image_file, output_file, metadata, env, st) ==
    IF metadata = "int"
    THEN [ret |-> "False", st |-> st]
    ELSE IF env.save = "ok"
    THEN [ret |-> "True", st |-> write_file(mkdir(st, output_file.dir), output_file)]
    ELSE [ret |-> "True", st |-> mkdir(st, output_file.dir)]

\* env.save: what Image.open / img.save do ("ok", "open_fails", "save_fails")
update_image_exif(image_file, output_file, metadata, env, st) ==
    IF metadata = "int"
    THEN \* 'photoTakenTime' in metadata raises TypeError, caught
         [ret |-> "False", st |-> st]
    ELSE LET made == mkdir(st, output_file.dir) IN
         CASE env.save = "ok" -> [ret |-> "True", st |-> write_file(made, output_file)]
           [] env.save = "open_fails" -> [ret |-> "False", st |-> made]
           [] env.save = "save_fails" ->
                \* the file is opened for writing and truncated; a file that
                \* save created is removed again, one that existed stays truncated
                [ret |-> "False",
                 st |-> IF output_file \in SourceFiles
                        THEN write_file(made, output_file) ELSE made]

\* ----------------------------------------------------- update_video_exif
\* env.probe: subprocess.run(['exiftool', '-ver'], check=True) returns ("ok"),
\*   raises CalledProcessError or FileNotFoundError ("missing"), or raises
\*   another OSError such as PermissionError ("oserror"), which is not caught
\* env.copy: shutil.copy2 ("ok", "fails"); env.returncode: exiftool's exit code
check_exiftool_installed(env) ==
    CASE env.probe = "ok" -> "True"
      [] env.probe = "missing" -> "False"
      [] env.probe = "oserror" -> "raise"

update_video_exif(video_file, output_file, metadata, env, st) ==
    IF check_exiftool_installed(env) = "raise" THEN [ret |-> "raise", st |-> st]
    ELSE IF check_exiftool_installed(env) = "False" THEN [ret |-> "False", st |-> st]
    ELSE LET made == mkdir(st, output_file.dir)
             copied == write_file(made, output_file) IN
         IF output_file = video_file \/ env.copy = "fails"
         THEN \* SameFileError or another error of copy2, caught
              [ret |-> "False", st |-> made]
         ELSE IF metadata = "int"
         THEN \* 'dateTime' in metadata raises TypeError after the copy, caught
              [ret |-> "False", st |-> copied]
         ELSE IF env.returncode = 0
         THEN [ret |-> "True", st |-> copied]
         ELSE [ret |-> "False", st |-> copied]

\* ---------------------------------------------------- process_media_file
\* process_media_file without the early return of a dry run
process_media_file_no_dry_run(media_file, source_folder, output_folder, dryrun, fs, text, env, st) ==
    LET json_file == find_json_file(media_file, fs)
        metadata == load_json_metadata(text)
        relative_path == relative_to(media_file, source_folder)
        output_file == [dir |-> output_folder \o relative_path.dir,
                        name |-> relative_path.name]
    IN  IF json_file = None THEN [ret |-> "True", st |-> st, writer |-> "none"]
        ELSE IF metadata = "NoneType" THEN [ret |-> "False", st |-> st, writer |-> "none"]
        ELSE IF lower(suffix(media_file)) \in IMAGE_EXTENSIONS
        THEN LET r == update_image_exif(media_file, output_file, metadata, env, st)
             IN  [ret |-> r.ret, st |-> r.st, writer |-> "image"]
        ELSE LET r == update_video_exif(media_file, output_file, metadata, env, st)
             IN  [ret |-> r.ret, st |-> r.st, writer |-> "video"]

\* fs: the sidecar paths that exist; text: the content of the sidecar found.
\* The result also tells which writer was called.
process_media_file(media_file, source_folder, output_folder, dryrun, fs, text, env, st) ==
    LET json_file == find_json_file(media_file, fs)
        metadata == load_json_metadata(text)
        relative_path == relative_to(media_file, source_folder)
        output_file == [dir |-> output_folder \o relative_path.dir,
                        name |-> relative_path.name]
        is_image == lower(suffix(media_file)) \in IMAGE_EXTENSIONS
        is_video == lower(suffix(media_file)) \in VIDEO_EXTENSIONS
    IN  IF json_file = None THEN [ret |-> "True", st |-> st, writer |-> "none"]
        ELSE IF metadata = "NoneType" THEN [ret |-> "False", st |-> st, writer |-> "none"]
        ELSE IF dryrun THEN [ret |-> "True", st |-> st, writer |-> "none"]
        ELSE IF is_image
        THEN LET r == update_image_exif(media_file, output_file, metadata, env, st)
             IN  [ret |-> r.ret, st |-> r.st, writer |-> "image"]
        ELSE IF is_video
        THEN LET r == update_video_exif(media_file, output_file, metadata, env, st)
             IN  [ret |-> r.ret, st |-> r.st, writer |-> "video"]
        ELSE [ret |-> "False", st |-> st, writer |-> "none"]

\* ------------------------------------------------------------------ main
\* folder.parent / (folder.name + args.output_suffix)
OutputFolder(sfx) == Front(folder) \o <<folder[Len(folder)] \o sfx>>

\* the mirrored output path of a media file
OutputFile(media_file) ==
    [dir |-> OutputFolder(output_suffix) \o relative_to(media_file, folder).dir,
     name |-> media_file.name]

\* the counting with the else branch lost: a skipped file falls through to the
\* success counter as well
MainCounts_fallthrough(counts, json_file, success) ==
    IF json_file = None THEN <<counts[1] + 1, counts[2] + 1, counts[3]>>
    ELSE IF success = "True" THEN <<counts[1] + 1, counts[2], counts[3]>>
    ELSE <<counts[1], counts[2], counts[3] + 1>>

\* the counters after one loop iteration; counts = <<success, skipped, error>>
MainCounts(counts, json_file, success) ==
    IF json_file = None THEN <<counts[1], counts[2] + 1, counts[3]>>
    ELSE IF success = "True" THEN <<counts[1] + 1, counts[2], counts[3]>>
    ELSE <<counts[1], counts[2], counts[3] + 1>>

\* what the writers meet: only the fields the file's writer reads are drawn
WriterEnvs(media_file) ==
    IF lower(suffix(media_file)) \in IMAGE_EXTENSIONS
    THEN [save : {"ok", "open_fails", "save_fails"}, probe : {"ok"},
          copy : {"ok"}, returncode : {0}]
    ELSE [save : {"ok"}, probe : {"missing", "oserror"}, copy : {"ok"}, returncode : {0}]
         \cup [save : {"ok"}, probe : {"ok"}, copy : {"fails"}, returncode : {0}]
         \cup [save : {"ok"}, probe : {"ok"}, copy : {"ok"}, returncode : {0, 1}]

Outcome(json_file, success) ==
    IF json_file = None THEN "Skipped"
    ELSE IF success = "True" THEN "Updated" ELSE "Error"

BatchInit ==
    /\ tree \in Trees
    /\ dry_run \in BOOLEAN
    /\ output_suffix \in OutputSuffixes
    /\ media_files = <<>>
    /\ pc = "scan"
    /\ idx = 1
    /\ success_count = 0 /\ skipped_count = 0 /\ error_count = 0
    /\ log = <<>>
    /\ created = {} /\ modified = {} /\ dirs = {}

\* lines 396-400: enumerate; with no media file main returns at once
Scan ==
    /\ pc = "scan"
    /\ media_files' = find_media_files(tree)
    /\ pc' = IF find_media_files(tree) = <<>> THEN "exit" ELSE "loop"
    /\ UNCHANGED <<tree, dry_run, output_suffix, idx, success_count, skipped_count,
                   error_count, log, created, modified, dirs>>

\* lines 410-419: one iteration of the loop over media_files
LoopIteration ==
    /\ pc = "loop"
    /\ idx <= Len(media_files)
    /\ LET media_file == media_files[idx] IN
       \E fs \in SidecarSets(media_file) :
       \E text \in IF find_json_file(media_file, fs) = None THEN {"none"} ELSE JsonTexts :
       \E env \in IF find_json_file(media_file, fs) = None \/ dry_run
                     \/ load_json_metadata(text) = "NoneType"
                  THEN {CHOOSE e \in WriterEnvs(media_file) : TRUE}
                  ELSE WriterEnvs(media_file) :
         LET json_file == find_json_file(media_file, fs)
             st == [created |-> created, modified |-> modified, dirs |-> dirs]
             r == IF json_file = None
                  THEN [ret |-> "none", st |-> st, writer |-> "none"]
                  ELSE process_media_file(media_file, folder, OutputFolder(output_suffix),
                                          dry_run, fs, text, env, st)
             counts == MainCounts(<<success_count, skipped_count, error_count>>,
                                  json_file, r.ret)
         IN  IF r.ret = "raise"
             THEN \* the exception leaves main: the run ends with a traceback
                  /\ pc' = "aborted"
                  /\ UNCHANGED <<idx, success_count, skipped_count, error_count, log,
                                 created, modified, dirs>>
             ELSE /\ pc' = pc
                  /\ idx' = idx + 1
                  /\ success_count' = counts[1]
                  /\ skipped_count' = counts[2]
                  /\ error_count' = counts[3]
                  /\ log' = Append(log, [file |-> media_file, text |-> text,
                                         outcome |-> Outcome(json_file, r.ret),
                                         writer |-> r.writer])
                  /\ created' = r.st.created
                  /\ modified' = r.st.modified
                  /\ dirs' = r.st.dirs
    /\ UNCHANGED <<tree, dry_run, output_suffix, media_files>>

\* lines 421-427: the summary is printed
Summary ==
    /\ pc = "loop"
    /\ idx > Len(media_files)
    /\ pc' = "summary"
    /\ UNCHANGED <<tree, dry_run, output_suffix, media_files, idx, success_count,
                   skipped_count, error_count, log, created, modified, dirs>>

\* ------------------------------------------------ find_json_file, alone
ResolverMedia ==
    {TreeFile(i, ext) : i \in 1..(2 * MaxFiles), ext \in {"jpg", "MP4"}}

ResolverInit ==
    /\ r_media \in ResolverMedia
    /\ r_fs \in SUBSET Candidates(r_media)
    /\ r_json = None
    /\ r_pc = "call"

Resolve ==
    /\ r_pc = "call"
    /\ r_json' = find_json_file(r_media, r_fs)
    /\ r_pc' = "done"
    /\ UNCHANGED <<r_media, r_fs>>

\* ------------------------------------------------------------ to_degrees
\* A decimal-degree value is the integer number of 1/Scale degrees: one unit
\* is a quarter of 1/100 second, so the arithmetic below is exact where the
\* code computes in binary floating point.
UnitsPerHundredth == 4
Scale == 360000 * UnitsPerHundredth

MaxDegrees == 2
MaxQuarters == 8

Abs(n) == IF n < 0 THEN -n ELSE n

\* the code's tuple ((degrees, 1), (minutes, 1), (int(seconds * 100), 100))
to_degrees(value) ==
    LET v == Abs(value)
        degrees == v \div Scale
        minutes == ((v - degrees * Scale) * 60) \div Scale
        \* seconds, in units
        seconds == v - degrees * Scale - minutes * (Scale \div 60)
    IN  <<<<degrees, 1>>, <<minutes, 1>>, <<seconds \div UnitsPerHundredth, 100>>>>

\* lines 215-221: the GPS block built from the two coordinates
create_gps_exif(lat, lon) ==
    [t \in {"GPSLatitudeRef", "GPSLatitude", "GPSLongitudeRef", "GPSLongitude"} |->
        CASE t = "GPSLatitudeRef" -> IF lat >= 0 THEN <<"N">> ELSE <<"S">>
          [] t = "GPSLatitude" -> to_degrees(lat)
          [] t = "GPSLongitudeRef" -> IF lon >= 0 THEN <<"E">> ELSE <<"W">>
          [] t = "GPSLongitude" -> to_degrees(lon)]

\* inputs: sign * (d degrees + m minutes + q quarter-hundredths of a second)
CoordValues ==
    {sg * (d * Scale + m * (Scale \div 60) + q) :
        sg \in {1, -1}, d \in 0..MaxDegrees, m \in {0, 1, 59},
        q \in (0..MaxQuarters) \cup {(Scale \div 60) - 1}}

CoordInit ==
    /\ c_value \in CoordValues
    /\ c_dms = <<>>
    /\ c_pc = "call"

Convert ==
    /\ c_pc = "call"
    /\ c_dms' = to_degrees(c_value)
    /\ c_pc' = "done"
    /\ UNCHANGED c_value

\* ------------------------------------- update_image_exif, the tag mapping
\* An exif_dict maps each IFD to a function from tag names to values.
IFDs == {"0th", "Exif", "GPS", "1st"}
NoTags == [t \in {} |-> <<>>]
EmptyExif == [i \in IFDs |-> NoTags]

Put(d, tag, v) == [t \in (DOMAIN d) \cup {tag} |-> IF t = tag THEN v ELSE d[t]]
SetTag(exif, ifd, tag, v) == [exif EXCEPT ![ifd] = Put(exif[ifd], tag, v)]

\* the tags an image may carry before the run; each holds the value <<"orig">>
ExistingTags == {<<"0th", "Make">>, <<"0th", "DateTime">>, <<"Exif", "ISOSpeedRatings">>,
                 <<"GPS", "GPSAltitude">>, <<"GPS", "GPSLatitude">>}

ExifOf(tags) ==
    [i \in IFDs |-> [t \in {p[2] : p \in {q \in tags : q[1] = i}} |-> <<"orig">>]]

\* what piexif.load gives: a dict, or "error" when it raises
LoadResults == {[ok |-> TRUE, exif |-> ExifOf(tags)] : tags \in SUBSET ExistingTags}
                 \cup {[ok |-> FALSE, exif |-> EmptyExif]}

\* a sidecar object: each field is absent, null, or carries a usable value
MetadataFields == {"photoTakenTime", "title", "description", "people", "geoData"}
Metadatas == [MetadataFields -> {"absent", "null", "value"}]

\* the coordinates of the sidecars in the model: 48.8584 N, 2.2945 E
SampleLat == 48 * Scale + 51 * (Scale \div 60) + 3024 * UnitsPerHundredth
SampleLon == 2 * Scale + 17 * (Scale \div 60) + 4020 * UnitsPerHundredth

\* lines 128-181: the dict handed to piexif.dump, ret "False" when the
\* mapping raises (photoTakenTime: null has no .get)
update_image_exif_tags(loaded, metadata) ==
    LET e0 == IF loaded.ok THEN loaded.exif ELSE EmptyExif
        e1 == IF metadata["photoTakenTime"] = "value"
              THEN SetTag(SetTag(SetTag(e0, "0th", "DateTime", <<"date_time">>),
                                 "Exif", "DateTimeOriginal", <<"date_time">>),
                          "Exif", "DateTimeDigitized", <<"date_time">>)
              ELSE e0
        e2 == IF metadata["title"] = "value"
              THEN SetTag(e1, "0th", "XPTitle", <<"title">>) ELSE e1
        e3 == IF metadata["description"] = "value"
              THEN SetTag(e2, "0th", "ImageDescription", <<"desc">>) ELSE e2
        e4 == IF metadata["people"] = "value"
              THEN SetTag(e3, "0th", "XPComment", <<"people_str">>) ELSE e3
        e5 == IF metadata["geoData"] = "value"
              THEN [e4 EXCEPT !["GPS"] = create_gps_exif(SampleLat, SampleLon)] ELSE e4
    IN  IF metadata["photoTakenTime"] = "null"
        THEN [ret |-> "False", exif |-> EmptyExif]
        ELSE [ret |-> "True", exif |-> e5]

ExifInit ==
    /\ e_loaded \in LoadResults
    /\ e_metadata \in Metadatas
    /\ e_exif = [ret |-> "none", exif |-> EmptyExif]
    /\ e_pc = "call"

UpdateTags ==
    /\ e_pc = "call"
    /\ e_exif' = update_image_exif_tags(e_loaded, e_metadata)
    /\ e_pc' = "done"
    /\ UNCHANGED <<e_loaded, e_metadata>>

\* -------------------------------------------------------- specifications
\* the state of a part that is not running
BatchIdle ==
    /\ tree = <<>> /\ dry_run = FALSE /\ output_suffix = "-exif" /\ media_files = <<>>
    /\ pc = "exit" /\ idx = 1
    /\ success_count = 0 /\ skipped_count = 0 /\ error_count = 0
    /\ log = <<>> /\ created = {} /\ modified = {} /\ dirs = {}
ResolverIdle == r_media = None /\ r_fs = {} /\ r_json = None /\ r_pc = "done"
CoordIdle == c_value = 0 /\ c_dms = <<>> /\ c_pc = "idle"
ExifIdle ==
    /\ e_loaded = [ok |-> FALSE, exif |-> EmptyExif]
    /\ e_metadata = [f \in MetadataFields |-> "absent"]
    /\ e_exif = [ret |-> "none", exif |-> EmptyExif]
    /\ e_pc = "idle"

\* the batch run of main
Init == BatchInit /\ ResolverIdle /\ CoordIdle /\ ExifIdle
Next == 
    \/ Scan /\ UNCHANGED <<resolver_vars, coord_vars, exif_vars>>
    \/ LoopIteration /\ UNCHANGED <<resolver_vars, coord_vars, exif_vars>>
    \/ Summary /\ UNCHANGED <<resolver_vars, coord_vars, exif_vars>>
Spec == Init /\ [][Next]_vars

\* find_json_file applied to every media file and set of existing candidates
SidecarInit == ResolverInit /\ BatchIdle /\ CoordIdle /\ ExifIdle
SidecarNext == Resolve /\ UNCHANGED <<batch_vars, coord_vars, exif_vars>>
SpecSidecar == SidecarInit /\ [][SidecarNext]_vars

\* to_degrees applied to every input value
CoordinateInit == CoordInit /\ BatchIdle /\ ResolverIdle /\ ExifIdle
CoordinateNext == Convert /\ UNCHANGED <<batch_vars, resolver_vars, exif_vars>>
SpecCoordinate == CoordinateInit /\ [][CoordinateNext]_vars

\* the tag mapping applied to every loaded dict and sidecar object
ImageTagsInit == ExifInit /\ BatchIdle /\ ResolverIdle /\ CoordIdle
ImageTagsNext == UpdateTags /\ UNCHANGED <<batch_vars, resolver_vars, coord_vars>>
SpecImageTags == ImageTagsInit /\ [][ImageTagsNext]_vars

\* ================================================================ claims
LogIndexes == 1..Len(log)
WithOutcome(o) == {i \in LogIndexes : log[i].outcome = o}
\* the files the run wrote to
Written == created \cup modified
UnderSource(p) == Len(p.dir) >= Len(folder) /\ SubSeq(p.dir, 1, Len(folder)) = folder

\* C1: every finished iteration of the loop adds one to exactly one of the
\* three counters, so the counters sum to the number of files handled so far
\* and, at the summary, to the number of enumerated media files; each counter
\* equals the number of files with that outcome.
C1_OneCounterPerFile ==
    /\ success_count + skipped_count + error_count = idx - 1
    /\ Len(log) = idx - 1
    /\ \A i \in LogIndexes : log[i].file = media_files[i]
    /\ success_count = Cardinality(WithOutcome("Updated"))
    /\ skipped_count = Cardinality(WithOutcome("Skipped"))
    /\ error_count = Cardinality(WithOutcome("Error"))
    /\ pc = "summary" =>
          success_count + skipped_count + error_count = Len(media_files)

C1_Witness ==
    /\ pc = "summary"
    /\ Len(media_files) = 2
    /\ skipped_count = 1
    /\ error_count = 1

\* C2 (as claimed): after a live run the output tree holds a file only for
\* the files whose outcome is Updated; a skipped or errored file has no file
\* at its mirrored output path.
C2_OnlyUpdatedInOutput ==
    (pc = "summary" /\ ~dry_run) =>
        \A i \in LogIndexes :
            log[i].outcome # "Updated" => OutputFile(log[i].file) \notin created

\* C3 (as claimed): a sidecar that is not valid JSON, or whose top-level value
\* is not an object, makes the file an Error in dry-run and live mode alike,
\* and no writer is called for it.
C3_NonObjectIsDecodeError ==
    \A i \in LogIndexes :
        (log[i].text # "none" /\ json_load(log[i].text) # "dict") =>
            (log[i].outcome = "Error" /\ log[i].writer = "none")

\* C4 (as claimed): no failure while processing one file ends the run: the
\* loop goes on to the next file and main reaches the summary.
C4_NoFailureAborts ==
    /\ pc # "aborted"
    /\ pc = "summary" => Len(log) = Len(media_files)
    /\ error_count = Cardinality(WithOutcome("Error"))

\* C5: a dry run creates no directory, calls no writer and writes no file.
C5_DryRunWritesNothing ==
    dry_run =>
        /\ created = {} /\ modified = {} /\ dirs = {}
        /\ \A i \in LogIndexes : log[i].writer = "none"

C5_Witness ==
    /\ dry_run
    /\ pc = "summary"
    /\ success_count >= 1
    /\ \E i \in LogIndexes : log[i].outcome = "Updated" /\ json_load(log[i].text) = "dict"

\* the candidate names as the specification lists them, k = 1 the first
ListedName(media_file, k) ==
    CASE k = 1 -> media_file.name \o <<"suppl", "json">>
      [] k = 2 -> media_file.name \o <<"supplemental-metadata", "json">>
      [] k = 3 -> media_file.name \o <<"json">>
      [] k = 4 -> <<media_file.name[1], "json">>
Listed(media_file, k) == [dir |-> media_file.dir, name |-> ListedName(media_file, k)]

\* C6: find_json_file returns the existing candidate that comes first in the
\* listed order, and None exactly when none of the four exists.
C6_FirstExistingCandidate ==
    r_pc = "done" /\ r_media # None =>
        /\ r_json = None <=> \A k \in 1..4 : Listed(r_media, k) \notin r_fs
        /\ r_json # None =>
              \E k \in 1..4 :
                  /\ r_json = Listed(r_media, k)
                  /\ r_json \in r_fs
                  /\ \A j \in 1..(k - 1) : Listed(r_media, j) \notin r_fs

C6_Witness ==
    /\ r_pc = "done"
    /\ r_fs = {Listed(r_media, 3), Listed(r_media, 4)}
    /\ r_json = Listed(r_media, 3)

\* C7 (as claimed): whatever the output suffix, the run creates, overwrites
\* or modifies nothing below the source folder.
C7_SourceUntouched ==
    /\ \A p \in Written : ~UnderSource(p)
    /\ \A d \in dirs : ~(Len(d) >= Len(folder) /\ SubSeq(d, 1, Len(folder)) = folder)

\* round(n / d) as Python rounds: to the nearest integer, a tie to the even one
Round(n, d) ==
    LET q == n \div d
        r == n % d
    IN  IF 2 * r < d THEN q
        ELSE IF 2 * r > d THEN q + 1
        ELSE IF q % 2 = 0 THEN q ELSE q + 1

\* C8 (as claimed): degrees is the integer part of the absolute value, minutes
\* the integer part of the remaining degrees times 60, and the seconds have
\* the numerator round(seconds * 100) over the denominator 100.
C8_SecondsRounded ==
    c_pc = "done" =>
        LET v == Abs(c_value)
            d == v \div Scale
            m == ((v % Scale) * 60) \div Scale
            sec == (v % Scale) - m * (Scale \div 60)
        IN  /\ c_dms[1] = <<d, 1>>
            /\ c_dms[2] = <<m, 1>>
            /\ m \in 0..59
            /\ c_dms[3] = <<Round(sec, UnitsPerHundredth), 100>>

\* the tags the sidecar overwrites, as <<ifd, tag>> pairs
Overwritten(metadata) ==
    (IF metadata["photoTakenTime"] = "value"
     THEN {<<"0th", "DateTime">>, <<"Exif", "DateTimeOriginal">>,
           <<"Exif", "DateTimeDigitized">>} ELSE {})
    \cup (IF metadata["title"] = "value" THEN {<<"0th", "XPTitle">>} ELSE {})
    \cup (IF metadata["description"] = "value" THEN {<<"0th", "ImageDescription">>} ELSE {})
    \cup (IF metadata["people"] = "value" THEN {<<"0th", "XPComment">>} ELSE {})
    \cup (IF metadata["geoData"] = "value"
          THEN {<<"GPS", "GPSLatitude">>, <<"GPS", "GPSLatitudeRef">>,
                <<"GPS", "GPSLongitude">>, <<"GPS", "GPSLongitudeRef">>} ELSE {})

\* C9 (as claimed): when the existing metadata was extracted and the writer
\* succeeds, every tag the sidecar does not overwrite keeps its value in the
\* metadata written, the other fields of the GPS block included.
C9_OtherTagsPreserved ==
    (e_pc = "done" /\ e_loaded.ok /\ e_exif.ret = "True") =>
        \A i \in IFDs : \A t \in DOMAIN e_loaded.exif[i] :
            <<i, t>> \notin Overwritten(e_metadata) =>
                /\ t \in DOMAIN e_exif.exif[i]
                /\ e_exif.exif[i][t] = e_loaded.exif[i][t]

\* C10: in a live run a file counts as Updated only if its sidecar was found
\* and decoded and the writer of its type was called, and every such file has
\* been written at the output folder joined with its path relative to the
\* source folder.
C10_UpdatedHasOutput ==
    ~dry_run =>
        \A i \in LogIndexes :
            log[i].outcome = "Updated" =>
                /\ log[i].text # "none"
                /\ json_load(log[i].text) \notin {"error", "NoneType"}
                /\ log[i].writer =
                       IF lower(suffix(log[i].file)) \in IMAGE_EXTENSIONS
                       THEN "image" ELSE "video"
                /\ OutputFile(log[i].file) \in Written

C10_Witness ==
    /\ ~dry_run
    /\ pc = "summary"
    /\ success_count = 2
    /\ \E i \in LogIndexes : log[i].writer = "video" /\ OutputFile(log[i].file) \in created
    /\ \E i \in LogIndexes : log[i].writer = "image" /\ OutputFile(log[i].file) \in created

====
